---------------------------- MODULE Spec2Model ----------------------------
(***************************************************************************)
(* dreamervm: a register-augmented stack machine.                          *)
(*                                                                         *)
(* The machine's only value type is Word = u64.  TLC's integers are 32-bit *)
(* wide, so a Word is kept at its full width as WordBytes limbs of one     *)
(* byte each: a function [1..WordBytes -> 0..255] in which limb i has      *)
(* weight 256^(i-1) (limb 1 is the least significant byte).  The checked   *)
(* and wrapping operations of u64 are computed limb by limb.               *)
(***************************************************************************)
EXTENDS Integers, Sequences, FiniteSets, TLC

(***************************************************************************)
(* common/types.rs                                                         *)
(***************************************************************************)
BITS_PER_BYTE == 8

WordBits == 64

word_bytes == WordBits \div BITS_PER_BYTE

ByteBase == 2 ^ BITS_PER_BYTE

Byte == 0 .. (ByteBase - 1)

Limbs(n) == [1 .. n -> Byte]

\* The limb function f as an explicit tuple (the same function; TLC then
\* holds its limbs instead of the expression that computes them).
Tup(f) == f \o <<>>

Word == Limbs(word_bytes)

\* The Word whose value is the natural number n (n below 2^31).
W(n) == Tup([i \in 1 .. word_bytes |->
               IF i <= 4 THEN (n \div (ByteBase ^ (i - 1))) % ByteBase ELSE 0])

WordZero == W(0)

WordMax == Tup([i \in 1 .. word_bytes |-> ByteBase - 1])

\* The word with the single bit k (0 .. WordBits-1) set.
WordBit(k) == Tup([i \in 1 .. word_bytes |->
                     IF i = (k \div BITS_PER_BYTE) + 1
                     THEN 2 ^ (k % BITS_PER_BYTE) ELSE 0])

\* Bit k of the limb function a.
BitOf(a, k) == (a[(k \div BITS_PER_BYTE) + 1] \div (2 ^ (k % BITS_PER_BYTE))) % 2

\* a < b for two limb functions of n limbs, most significant limb first.
RECURSIVE LtN(_, _, _)
LtN(a, b, n) ==
  IF n = 0 THEN FALSE
  ELSE IF a[n] # b[n] THEN a[n] < b[n]
  ELSE LtN(a, b, n - 1)

WordLt(a, b) == LtN(a, b, word_bytes)

\* Carry out of limbs 1..i of a + b.
RECURSIVE AddCarry(_, _, _)
AddCarry(a, b, i) ==
  IF i = 0 THEN 0
  ELSE (a[i] + b[i] + AddCarry(a, b, i - 1)) \div ByteBase

\* u64::wrapping_add
wrapping_add(a, b) ==
  Tup([i \in 1 .. word_bytes |->
         (a[i] + b[i] + AddCarry(a, b, i - 1)) % ByteBase])

\* Borrow out of limbs 1..i of a - b.
RECURSIVE SubBorrow(_, _, _)
SubBorrow(a, b, i) ==
  IF i = 0 THEN 0
  ELSE IF a[i] - b[i] - SubBorrow(a, b, i - 1) < 0 THEN 1 ELSE 0

\* a - b modulo 256^n on n limbs.
SubN(a, b, n) ==
  Tup([i \in 1 .. n |->
         (ByteBase + a[i] - b[i] - SubBorrow(a, b, i - 1)) % ByteBase])

\* An Option<Word>.
None == [some |-> FALSE]

Some(w) == [some |-> TRUE, val |-> w]

\* u64::checked_add
checked_add(a, b) ==
  IF AddCarry(a, b, word_bytes) # 0 THEN None ELSE Some(wrapping_add(a, b))

\* u64::checked_sub
checked_sub(a, b) ==
  IF WordLt(a, b) THEN None ELSE Some(SubN(a, b, word_bytes))

\* Sum of the limb products a[i] * b[j] with i + j = k + 1, over i in 1..m.
RECURSIVE ColSum(_, _, _, _)
ColSum(a, b, k, m) ==
  IF m = 0 THEN 0
  ELSE ColSum(a, b, k, m - 1)
       + (IF k + 1 - m >= 1 /\ k + 1 - m <= word_bytes
          THEN a[m] * b[k + 1 - m] ELSE 0)

\* Carry out of columns 1..k of the schoolbook product a * b.
RECURSIVE MulCarry(_, _, _)
MulCarry(a, b, k) ==
  IF k = 0 THEN 0
  ELSE (ColSum(a, b, k, word_bytes) + MulCarry(a, b, k - 1)) \div ByteBase

\* Limb k (1 .. 2*word_bytes) of the full product a * b.
MulLimb(a, b, k) ==
  (ColSum(a, b, k, word_bytes) + MulCarry(a, b, k - 1)) % ByteBase

\* u64::checked_mul
checked_mul(a, b) ==
  IF \E k \in (word_bytes + 1) .. (2 * word_bytes) : MulLimb(a, b, k) # 0
  THEN None
  ELSE Some(Tup([i \in 1 .. word_bytes |-> MulLimb(a, b, i)]))

\* A limb function of n limbs widened by one zero limb at the top.
Widen(a, n) == Tup([i \in 1 .. (n + 1) |-> IF i <= n THEN a[i] ELSE 0])

\* 2 * r + bit on n limbs (the bit shifted out of the top limb is dropped).
Shl1(r, bit, n) ==
  Tup([i \in 1 .. n |->
         ((2 * r[i]) % ByteBase)
         + (IF i = 1 THEN bit ELSE r[i - 1] \div (ByteBase \div 2))])

\* One step of binary long division of a by b # 0, for bit k of a: r2 is the
\* running remainder shifted left with bit k of a brought in (one limb wider
\* than a Word, since 2 * r + 1 may need bit WordBits), bw is b widened.
DivBit(q, r2, bw, k) ==
  IF LtN(r2, bw, word_bytes + 1)
  THEN [q |-> q, r |-> r2]
  ELSE [q |-> Tup([i \in 1 .. word_bytes |-> q[i] + WordBit(k)[i]]),
        r |-> SubN(r2, bw, word_bytes + 1)]

\* Binary long division of a by b # 0 over the bits k down to lo, from the
\* quotient and remainder acc found for the bits above k.  (acc is bound
\* through a singleton set so that each level evaluates it once.)
RECURSIVE DivBits(_, _, _, _, _)
DivBits(a, b, k, lo, acc) ==
  IF k < lo THEN acc
  ELSE DivBits(a, b, k - 1, lo,
               CHOOSE n \in { DivBit(v.q, Shl1(v.r, BitOf(a, k), word_bytes + 1),
                                     Widen(b, word_bytes), k) : v \in {acc} } : TRUE)

\* Long division of a by b # 0 over the limbs j down to 1 of a, the bits of
\* each limb in turn.
RECURSIVE DivRem(_, _, _, _)
DivRem(a, b, j, acc) ==
  IF j = 0 THEN acc
  ELSE CHOOSE res \in
         { DivRem(a, b, j - 1, n) :
             n \in { DivBits(a, b, j * BITS_PER_BYTE - 1,
                             (j - 1) * BITS_PER_BYTE, acc) } } : TRUE

DivRemStart == [q |-> WordZero, r |-> Widen(WordZero, word_bytes)]

\* a / b of u64 for b # 0.
WordQuot(a, b) == DivRem(a, b, word_bytes, DivRemStart).q

\* a % b of u64 for b # 0.
WordRem(a, b) ==
  LET r == DivRem(a, b, word_bytes, DivRemStart).r
  IN  Tup([i \in 1 .. word_bytes |-> r[i]])

\* u64::checked_div
checked_div(a, b) ==
  IF b = WordZero THEN None ELSE Some(WordQuot(a, b))

\* x & y, x | y, x ^ y on one byte, bit by bit over bits 0..k-1.
RECURSIVE ByteBitwise(_, _, _, _)
ByteBitwise(f, x, y, k) ==
  IF k = 0 THEN 0
  ELSE ByteBitwise(f, x, y, k - 1)
       + (2 ^ (k - 1))
         * (LET bx == (x \div (2 ^ (k - 1))) % 2
                by == (y \div (2 ^ (k - 1))) % 2
            IN  CASE f = "and" -> IF bx = 1 /\ by = 1 THEN 1 ELSE 0
                  [] f = "or"  -> IF bx = 1 \/ by = 1 THEN 1 ELSE 0
                  [] f = "xor" -> IF bx # by THEN 1 ELSE 0)

\* a & b
WordAnd(a, b) ==
  Tup([i \in 1 .. word_bytes |-> ByteBitwise("and", a[i], b[i], BITS_PER_BYTE)])

\* a | b
WordOr(a, b) ==
  Tup([i \in 1 .. word_bytes |-> ByteBitwise("or", a[i], b[i], BITS_PER_BYTE)])

\* a ^ b
WordXor(a, b) ==
  Tup([i \in 1 .. word_bytes |-> ByteBitwise("xor", a[i], b[i], BITS_PER_BYTE)])

\* !a
WordNot(a) == Tup([i \in 1 .. word_bytes |-> (ByteBase - 1) - a[i]])

\* `w as usize` for a Word below 2^31 (its upper limbs are zero).
WordToNat(w) ==
  w[1] + w[2] * ByteBase + w[3] * (ByteBase ^ 2) + (w[4] % (ByteBase \div 2)) * (ByteBase ^ 3)

\* `(w as usize) < n` for a length n below 2^31 (a 64-bit target: the cast
\* keeps the value).
WordBelow(w, n) == WordLt(w, W(n))

(***************************************************************************)
(* core/stack.rs                                                           *)
(***************************************************************************)
MAX_STACK_DEPTH == 65535

(***************************************************************************)
(* The Vec<Word> inside a Stack.  A vector of up to 65535 Words is held as *)
(* the number of zero Words at its bottom (`zeros`) and the sequence of    *)
(* the Words above them (`rest`), which is empty or starts with a nonzero  *)
(* Word: every vector has exactly one such representation, so equality of  *)
(* representations is equality of vectors.  Vec_of and Vec_seq convert     *)
(* from and to the plain sequence, bottom first.                           *)
(***************************************************************************)
\* vec![]
Vec_new == [zeros |-> 0, rest |-> << >>]

\* Vec::len
Vec_len(v) == v.zeros + Len(v.rest)

\* Vec::push
Vec_push(v, elem) ==
  IF v.rest = << >> /\ elem = WordZero
  THEN [zeros |-> v.zeros + 1, rest |-> << >>]
  ELSE [zeros |-> v.zeros, rest |-> Append(v.rest, elem)]

\* Vec::pop: None on the empty vector, else the last element, removed.
Vec_pop(v) ==
  IF v.rest # << >>
  THEN [some |-> TRUE, val |-> v.rest[Len(v.rest)],
        vec |-> [zeros |-> v.zeros, rest |-> SubSeq(v.rest, 1, Len(v.rest) - 1)]]
  ELSE IF v.zeros > 0
       THEN [some |-> TRUE, val |-> WordZero,
             vec |-> [zeros |-> v.zeros - 1, rest |-> << >>]]
       ELSE [some |-> FALSE, vec |-> v]

\* The element at index i, counted from 1 at the bottom.
Vec_get(v, i) == IF i <= v.zeros THEN WordZero ELSE v.rest[i - v.zeros]

\* The vector of the Words of the sequence s, bottom first.
RECURSIVE Vec_of(_)
Vec_of(s) ==
  IF s = << >> THEN Vec_new
  ELSE Vec_push(Vec_of(SubSeq(s, 1, Len(s) - 1)), s[Len(s)])

\* The sequence of the Words of v, bottom first.
Vec_seq(v) == [i \in 1 .. Vec_len(v) |-> Vec_get(v, i)] \o << >>

\* Stack::new
Stack_new == Vec_new

\* Stack::depth
Stack_depth(st) == Vec_len(st)

\* Stack::push: Err(StackError::Full) at MAX_STACK_DEPTH, else the element
\* is appended.
Stack_push(st, elem) ==
  IF Vec_len(st) = MAX_STACK_DEPTH
  THEN [ok |-> FALSE, stack |-> st]
  ELSE [ok |-> TRUE, stack |-> Vec_push(st, elem)]

\* Stack::pop: Err(StackError::Empty) on the empty stack, else the last
\* element is removed and returned.
Stack_pop(st) ==
  LET x == Vec_pop(st)
  IN  IF x.some
      THEN [ok |-> TRUE, val |-> x.val, stack |-> x.vec]
      ELSE [ok |-> FALSE, stack |-> st]

(***************************************************************************)
(* core/memory.rs: HashMemory, a map from Word to Word.                    *)
(***************************************************************************)
\* HashMemory::new
Memory_new == [x \in {} |-> WordZero]

\* A read that returns the address itself where nothing was written: what
\* C17 rules out.
Memory_read_absent_is_address(mem, address) ==
  IF address \in DOMAIN mem THEN mem[address] ELSE address

\* HashMemory::read
Memory_read(mem, address) ==
  IF address \in DOMAIN mem THEN mem[address] ELSE WordZero

\* A write into a fresh map, which forgets what was written before: what C25
\* rules out.
Memory_write_forgetting(mem, address, data) == (address :> data)

\* HashMemory::write
Memory_write(mem, address, data) == (address :> data) @@ mem

(***************************************************************************)
(* core/state.rs                                                           *)
(***************************************************************************)
\* State::default
State_default ==
  [pc |-> WordZero, reg |-> WordZero, stack |-> Stack_new, memory |-> Memory_new]

(***************************************************************************)
(* core/instruction.rs                                                     *)
(***************************************************************************)
PlainOpcodes ==
  { "Nop", "Halt", "Load", "Store", "Push", "Pop", "Read", "Write", "Jump",
    "JumpIf", "Add", "Sub", "Mul", "Div", "Mod", "Cmp", "And", "Or", "Not",
    "Xor" }

\* A payload-free Instruction.
I(name) == [op |-> name]

\* Instruction::Set(w)
ISet(w) == [op |-> "Set", arg |-> w]

\* The opcode byte of each payload-free instruction (0 .. 20 without 6).
OpcodeOf ==
  [n \in PlainOpcodes |->
     CASE n = "Nop" -> 0    [] n = "Halt" -> 1   [] n = "Load" -> 2
       [] n = "Store" -> 3  [] n = "Push" -> 4   [] n = "Pop" -> 5
       [] n = "Read" -> 7   [] n = "Write" -> 8  [] n = "Jump" -> 9
       [] n = "JumpIf" -> 10 [] n = "Add" -> 11  [] n = "Sub" -> 12
       [] n = "Mul" -> 13   [] n = "Div" -> 14   [] n = "Mod" -> 15
       [] n = "Cmp" -> 16   [] n = "And" -> 17   [] n = "Or" -> 18
       [] n = "Not" -> 19   [] n = "Xor" -> 20]

\* The opcode byte of Set.
SET_OPCODE == 6

\* The literal read least significant byte first: what C16 rules out.
from_le_bytes(bytes) == Tup([i \in 1 .. word_bytes |-> bytes[i]])

\* Word::from_be_bytes: the first byte is the most significant limb.
from_be_bytes(bytes) == Tup([i \in 1 .. word_bytes |-> bytes[word_bytes + 1 - i]])

ParseOk(i) == [ok |-> TRUE, instr |-> i]

ParseErr(e) == [ok |-> FALSE, err |-> e]

\* A match whose catch-all arm accepts the byte as a Nop: what C14 rules out.
MatchOpcode_lenient(b) ==
  IF b \in 0 .. 20 \ { 6 }
  THEN ParseOk(I(CHOOSE n \in PlainOpcodes : OpcodeOf[n] = b))
  ELSE IF b = 6 THEN ParseErr("MissingLiteral") ELSE ParseOk(I("Nop"))

\* The arms of `match value[0]` in Instruction::try_from, for a slice of one
\* byte.
MatchOpcode(b) ==
  CASE b = 0 -> ParseOk(I("Nop"))      [] b = 1 -> ParseOk(I("Halt"))
    [] b = 2 -> ParseOk(I("Load"))     [] b = 3 -> ParseOk(I("Store"))
    [] b = 4 -> ParseOk(I("Push"))     [] b = 5 -> ParseOk(I("Pop"))
    [] b = 7 -> ParseOk(I("Read"))     [] b = 8 -> ParseOk(I("Write"))
    [] b = 9 -> ParseOk(I("Jump"))     [] b = 10 -> ParseOk(I("JumpIf"))
    [] b = 11 -> ParseOk(I("Add"))     [] b = 12 -> ParseOk(I("Sub"))
    [] b = 13 -> ParseOk(I("Mul"))     [] b = 14 -> ParseOk(I("Div"))
    [] b = 15 -> ParseOk(I("Mod"))     [] b = 16 -> ParseOk(I("Cmp"))
    [] b = 17 -> ParseOk(I("And"))     [] b = 18 -> ParseOk(I("Or"))
    [] b = 19 -> ParseOk(I("Not"))     [] b = 20 -> ParseOk(I("Xor"))
    [] b = 6 -> ParseErr("MissingLiteral")
    [] OTHER -> ParseErr("InvalidOpcode")

\* Instruction::try_from(&[u8])
Instruction_try_from(value) ==
  IF Len(value) = 0 THEN ParseErr("NoData")
  ELSE IF Len(value) > 1
  THEN IF value[1] = SET_OPCODE
       THEN IF Len(value) = 1 + word_bytes
            THEN ParseOk(ISet(from_be_bytes(SubSeq(value, 2, Len(value)))))
            ELSE ParseErr("IncompleteLiteral")
       ELSE ParseErr("InappropriateLiteral")
  ELSE MatchOpcode(value[1])

\* A to_byte with the bytes of And and Or exchanged: what C15 rules out.
Instruction_to_byte_swapped(i) ==
  IF i.op = "Set" THEN SET_OPCODE
  ELSE IF i.op = "And" THEN OpcodeOf["Or"]
  ELSE IF i.op = "Or" THEN OpcodeOf["And"]
  ELSE OpcodeOf[i.op]

\* Instruction::to_byte
Instruction_to_byte(i) == IF i.op = "Set" THEN SET_OPCODE ELSE OpcodeOf[i.op]

(***************************************************************************)
(* core/machine.rs: the step function.  A step returns Ok(state) or        *)
(* Err(MachineError), or it panics (an unwrap of an error, todo!(), a      *)
(* remainder by zero, or `pc + 1` overflowing in a build with overflow     *)
(* checks; oc tells whether the build has them).                           *)
(***************************************************************************)
Ok(s) == [tag |-> "Ok", state |-> s]

Err(e) == [tag |-> "Err", err |-> e]

Panic == [tag |-> "Panic"]

OPS_ARITY_LOAD == 1

OPS_ARITY_STORE == 2

OPS_ARITY_JUMP == 1

OPS_ARITY_ADD == 2

OPS_ARITY_SUB == 2

OPS_ARITY_MUL == 2

OPS_ARITY_DIV == 2

OPS_ARITY_MOD == 2

OPS_ARITY_CMP == 2

OPS_ARITY_AND == 2

OPS_ARITY_OR == 2

OPS_ARITY_NEG == 1

OPS_ARITY_XOR == 2

\* A program counter that moves past the next instruction: what C24 rules
\* out.
pc_plus_1_skipping(state, oc) ==
  LET r == checked_add(state.pc, W(2))
  IN  IF r.some THEN [panic |-> FALSE, val |-> r.val]
      ELSE IF oc THEN [panic |-> TRUE, val |-> state.pc]
      ELSE [panic |-> FALSE, val |-> wrapping_add(state.pc, W(2))]

\* `state.pc + 1`: panics on overflow with overflow checks, wraps without.
pc_plus_1(state, oc) ==
  LET r == checked_add(state.pc, W(1))
  IN  IF r.some THEN [panic |-> FALSE, val |-> r.val]
      ELSE IF oc THEN [panic |-> TRUE, val |-> state.pc]
      ELSE [panic |-> FALSE, val |-> wrapping_add(state.pc, W(1))]

\* The top of the stack: `state.stack.clone().pop().unwrap()`.
PopA(state) == Stack_pop(state.stack)

\* The element beneath the top: the second pop of a clone of the stack.
PopB(state) == Stack_pop(PopA(state).stack)

\* A Nop that leaves the pc where it is: what C29 rules out.
ops_nop_staying(state, oc) == Ok(state)

\* ops::nop
ops_nop(state, oc) ==
  LET p == pc_plus_1(state, oc)
  IN  IF p.panic THEN Panic ELSE Ok([state EXCEPT !.pc = p.val])

\* A Halt that advances pc like the other opcodes: what C10 rules out.
ops_halt_advancing(state, oc) ==
  LET p == pc_plus_1(state, oc)
  IN  IF p.panic THEN Panic ELSE Ok([state EXCEPT !.pc = p.val])

\* ops::halt
ops_halt(state, oc) == Ok(state)

\* ops::load
ops_load(state, oc) ==
  IF Stack_depth(state.stack) < OPS_ARITY_LOAD
  THEN Err("InsufficientArguments")
  ELSE LET p    == pc_plus_1(state, oc)
           x    == Stack_pop(state.stack)
           data == Memory_read(state.memory, x.val)
           y    == Stack_push(x.stack, data)
       IN  IF p.panic \/ ~x.ok \/ ~y.ok THEN Panic
           ELSE Ok([state EXCEPT !.pc = p.val, !.stack = y.stack])

\* A Store that pops the value first and the address second: what C18 rules
\* out.
ops_store_value_first(state, oc) ==
  IF Stack_depth(state.stack) < OPS_ARITY_STORE
  THEN Err("InsufficientArguments")
  ELSE LET p       == pc_plus_1(state, oc)
           data    == Stack_pop(state.stack)
           address == Stack_pop(data.stack)
       IN  IF p.panic \/ ~address.ok \/ ~data.ok THEN Panic
           ELSE Ok([state EXCEPT
                      !.pc = p.val,
                      !.stack = address.stack,
                      !.memory = Memory_write(state.memory, address.val, data.val)])

\* A Store that checks for one element only and unwraps the second pop: what
\* C3 rules out.
ops_store_arity_one(state, oc) ==
  IF Stack_depth(state.stack) < 1
  THEN Err("InsufficientArguments")
  ELSE LET p       == pc_plus_1(state, oc)
           address == Stack_pop(state.stack)
           data    == Stack_pop(address.stack)
       IN  IF p.panic \/ ~address.ok \/ ~data.ok THEN Panic
           ELSE Ok([state EXCEPT
                      !.pc = p.val,
                      !.stack = data.stack,
                      !.memory = Memory_write(state.memory, address.val, data.val)])

\* ops::store
ops_store(state, oc) ==
  IF Stack_depth(state.stack) < OPS_ARITY_STORE
  THEN Err("InsufficientArguments")
  ELSE LET p       == pc_plus_1(state, oc)
           address == Stack_pop(state.stack)
           data    == Stack_pop(address.stack)
       IN  IF p.panic \/ ~address.ok \/ ~data.ok THEN Panic
           ELSE Ok([state EXCEPT
                      !.pc = p.val,
                      !.stack = data.stack,
                      !.memory = Memory_write(state.memory, address.val, data.val)])

\* A Push that asks for an element on the stack, as the operators with
\* arguments do: what C22 rules out.
ops_push_needs_element(state, oc) ==
  IF Stack_depth(state.stack) < 1
  THEN Err("InsufficientArguments")
  ELSE IF Stack_depth(state.stack) = MAX_STACK_DEPTH
  THEN Err("StackFull")
  ELSE LET p == pc_plus_1(state, oc)
           y == Stack_push(state.stack, state.reg)
       IN  IF p.panic \/ ~y.ok THEN Panic
           ELSE Ok([state EXCEPT !.pc = p.val, !.stack = y.stack])

\* A Push without either depth check, appending to the vector itself: what
\* C2 rules out.
ops_push_unchecked(state, oc) ==
  LET p == pc_plus_1(state, oc)
  IN  IF p.panic THEN Panic
      ELSE Ok([state EXCEPT !.pc = p.val,
                            !.stack = Vec_push(state.stack, state.reg)])

\* ops::push
ops_push(state, oc) ==
  IF Stack_depth(state.stack) = MAX_STACK_DEPTH
  THEN Err("StackFull")
  ELSE LET p == pc_plus_1(state, oc)
           y == Stack_push(state.stack, state.reg)
       IN  IF p.panic \/ ~y.ok THEN Panic
           ELSE Ok([state EXCEPT !.pc = p.val, !.stack = y.stack])

\* A Pop that drops the element it removes instead of keeping it in the
\* register: what C26 rules out.
ops_pop_discarding(state, oc) ==
  IF Stack_depth(state.stack) = 0
  THEN Err("StackEmpty")
  ELSE LET p == pc_plus_1(state, oc)
           x == Stack_pop(state.stack)
       IN  IF p.panic \/ ~x.ok THEN Panic
           ELSE Ok([state EXCEPT !.pc = p.val, !.stack = x.stack])

\* A Pop that reports the empty stack as a missing argument: what C4 rules
\* out.
ops_pop_arity(state, oc) ==
  IF Stack_depth(state.stack) < 1
  THEN Err("InsufficientArguments")
  ELSE LET p == pc_plus_1(state, oc)
           x == Stack_pop(state.stack)
       IN  IF p.panic \/ ~x.ok THEN Panic
           ELSE Ok([state EXCEPT !.pc = p.val, !.stack = x.stack, !.reg = x.val])

\* ops::pop
ops_pop(state, oc) ==
  IF Stack_depth(state.stack) = 0
  THEN Err("StackEmpty")
  ELSE LET p == pc_plus_1(state, oc)
           x == Stack_pop(state.stack)
       IN  IF p.panic \/ ~x.ok THEN Panic
           ELSE Ok([state EXCEPT !.pc = p.val, !.stack = x.stack, !.reg = x.val])

\* A Set that advances pc and leaves the register as it was: what C21 rules
\* out.
ops_set_keeps_reg(value, state, oc) ==
  LET p == pc_plus_1(state, oc)
  IN  IF p.panic THEN Panic ELSE Ok([state EXCEPT !.pc = p.val])

\* ops::set
ops_set(value, state, oc) ==
  LET p == pc_plus_1(state, oc)
  IN  IF p.panic THEN Panic ELSE Ok([state EXCEPT !.pc = p.val, !.reg = value])

\* ops::read: todo!()
ops_read(state, oc) == Panic

\* ops::write: todo!()
ops_write(state, oc) == Panic

\* ops::jump: the pc is the top of a clone of the stack; the stack itself is
\* carried over by `..state`.
ops_jump(state, oc) ==
  IF Stack_depth(state.stack) < OPS_ARITY_JUMP
  THEN Err("InsufficientArguments")
  ELSE LET x == Stack_pop(state.stack)
       IN  IF ~x.ok THEN Panic ELSE Ok([state EXCEPT !.pc = x.val])

\* The stack with its two top elements replaced by c (pop, pop, push).
PopPopPush(state, c) == Stack_push(PopB(state).stack, c)

\* An Add that wraps around instead of failing: what C5 rules out.
ops_add_wrapping(state, oc) ==
  IF Stack_depth(state.stack) < OPS_ARITY_ADD
  THEN Err("InsufficientArguments")
  ELSE LET a == PopA(state).val
           b == PopB(state).val
           p == pc_plus_1(state, oc)
           y == PopPopPush(state, wrapping_add(a, b))
       IN  IF p.panic \/ ~y.ok THEN Panic
           ELSE Ok([state EXCEPT !.pc = p.val, !.stack = y.stack])

\* ops::add
ops_add(state, oc) ==
  IF Stack_depth(state.stack) < OPS_ARITY_ADD
  THEN Err("InsufficientArguments")
  ELSE LET a == PopA(state).val
           b == PopB(state).val
       IN  IF ~checked_add(a, b).some THEN Err("ArithmeticOverflow")
           ELSE LET p == pc_plus_1(state, oc)
                    y == PopPopPush(state, wrapping_add(a, b))
                IN  IF p.panic \/ ~y.ok THEN Panic
                    ELSE Ok([state EXCEPT !.pc = p.val, !.stack = y.stack])

\* A Sub with its operands exchanged, beneath - top: what C6 rules out.
ops_sub_swapped(state, oc) ==
  IF Stack_depth(state.stack) < OPS_ARITY_SUB
  THEN Err("InsufficientArguments")
  ELSE LET a == PopA(state).val
           b == PopB(state).val
       IN  IF ~checked_sub(b, a).some THEN Err("ArithmeticOverflow")
           ELSE LET p == pc_plus_1(state, oc)
                    y == PopPopPush(state, SubN(b, a, word_bytes))
                IN  IF p.panic \/ ~y.ok THEN Panic
                    ELSE Ok([state EXCEPT !.pc = p.val, !.stack = y.stack])

\* ops::sub
ops_sub(state, oc) ==
  IF Stack_depth(state.stack) < OPS_ARITY_SUB
  THEN Err("InsufficientArguments")
  ELSE LET a == PopA(state).val
           b == PopB(state).val
       IN  IF ~checked_sub(a, b).some THEN Err("ArithmeticOverflow")
           ELSE LET p == pc_plus_1(state, oc)
                    y == PopPopPush(state, SubN(a, b, word_bytes))
                IN  IF p.panic \/ ~y.ok THEN Panic
                    ELSE Ok([state EXCEPT !.pc = p.val, !.stack = y.stack])

\* ops::mul
ops_mul(state, oc) ==
  IF Stack_depth(state.stack) < OPS_ARITY_MUL
  THEN Err("InsufficientArguments")
  ELSE LET a == PopA(state).val
           b == PopB(state).val
       IN  IF ~checked_mul(a, b).some THEN Err("ArithmeticOverflow")
           ELSE LET p == pc_plus_1(state, oc)
                    y == PopPopPush(state, checked_mul(a, b).val)
                IN  IF p.panic \/ ~y.ok THEN Panic
                    ELSE Ok([state EXCEPT !.pc = p.val, !.stack = y.stack])

\* ops::div
ops_div(state, oc) ==
  IF Stack_depth(state.stack) < OPS_ARITY_DIV
  THEN Err("InsufficientArguments")
  ELSE LET a == PopA(state).val
           b == PopB(state).val
       IN  IF ~checked_div(a, b).some THEN Err("ArithmeticOverflow")
           ELSE LET p == pc_plus_1(state, oc)
                    y == PopPopPush(state, WordQuot(a, b))
                IN  IF p.panic \/ ~y.ok THEN Panic
                    ELSE Ok([state EXCEPT !.pc = p.val, !.stack = y.stack])

\* ops::r#mod: `a % b` panics on a zero divisor (there is no check before).
ops_mod(state, oc) ==
  IF Stack_depth(state.stack) < OPS_ARITY_MOD
  THEN Err("InsufficientArguments")
  ELSE LET p == pc_plus_1(state, oc)
           a == PopA(state).val
           b == PopB(state).val
       IN  IF p.panic \/ b = WordZero THEN Panic
           ELSE LET y == PopPopPush(state, WordRem(a, b))
                IN  IF ~y.ok THEN Panic
                    ELSE Ok([state EXCEPT !.pc = p.val, !.stack = y.stack])

\* A Cmp that tests whether the top is below the element beneath it: what
\* C28 rules out.
ops_cmp_below(state, oc) ==
  IF Stack_depth(state.stack) < OPS_ARITY_CMP
  THEN Err("InsufficientArguments")
  ELSE LET p == pc_plus_1(state, oc)
           a == PopA(state).val
           b == PopB(state).val
           y == PopPopPush(state, IF WordLt(a, b) THEN W(1) ELSE W(0))
       IN  IF p.panic \/ ~y.ok THEN Panic
           ELSE Ok([state EXCEPT !.pc = p.val, !.stack = y.stack])

\* ops::cmp
ops_cmp(state, oc) ==
  IF Stack_depth(state.stack) < OPS_ARITY_CMP
  THEN Err("InsufficientArguments")
  ELSE LET p == pc_plus_1(state, oc)
           a == PopA(state).val
           b == PopB(state).val
           y == PopPopPush(state, IF a = b THEN W(1) ELSE W(0))
       IN  IF p.panic \/ ~y.ok THEN Panic
           ELSE Ok([state EXCEPT !.pc = p.val, !.stack = y.stack])

\* ops::and
ops_and(state, oc) ==
  IF Stack_depth(state.stack) < OPS_ARITY_AND
  THEN Err("InsufficientArguments")
  ELSE LET p == pc_plus_1(state, oc)
           y == PopPopPush(state, WordAnd(PopA(state).val, PopB(state).val))
       IN  IF p.panic \/ ~y.ok THEN Panic
           ELSE Ok([state EXCEPT !.pc = p.val, !.stack = y.stack])

\* ops::or
ops_or(state, oc) ==
  IF Stack_depth(state.stack) < OPS_ARITY_OR
  THEN Err("InsufficientArguments")
  ELSE LET p == pc_plus_1(state, oc)
           y == PopPopPush(state, WordOr(PopA(state).val, PopB(state).val))
       IN  IF p.panic \/ ~y.ok THEN Panic
           ELSE Ok([state EXCEPT !.pc = p.val, !.stack = y.stack])

\* ops::not
ops_not(state, oc) ==
  IF Stack_depth(state.stack) < OPS_ARITY_NEG
  THEN Err("InsufficientArguments")
  ELSE LET p == pc_plus_1(state, oc)
           y == Stack_push(PopA(state).stack, WordNot(PopA(state).val))
       IN  IF p.panic \/ ~y.ok THEN Panic
           ELSE Ok([state EXCEPT !.pc = p.val, !.stack = y.stack])

\* ops::xor
ops_xor(state, oc) ==
  IF Stack_depth(state.stack) < OPS_ARITY_XOR
  THEN Err("InsufficientArguments")
  ELSE LET p == pc_plus_1(state, oc)
           y == PopPopPush(state, WordXor(PopA(state).val, PopB(state).val))
       IN  IF p.panic \/ ~y.ok THEN Panic
           ELSE Ok([state EXCEPT !.pc = p.val, !.stack = y.stack])

\* Machine::step
Machine_step(state, instruction, oc) ==
  CASE instruction.op = "Nop"   -> ops_nop(state, oc)
    [] instruction.op = "Halt"  -> ops_halt(state, oc)
    [] instruction.op = "Load"  -> ops_load(state, oc)
    [] instruction.op = "Store" -> ops_store(state, oc)
    [] instruction.op = "Push"  -> ops_push(state, oc)
    [] instruction.op = "Pop"   -> ops_pop(state, oc)
    [] instruction.op = "Set"   -> ops_set(instruction.arg, state, oc)
    [] instruction.op = "Read"  -> ops_read(state, oc)
    [] instruction.op = "Write" -> ops_write(state, oc)
    [] instruction.op = "Jump"  -> ops_jump(state, oc)
    [] instruction.op = "Add"   -> ops_add(state, oc)
    [] instruction.op = "Sub"   -> ops_sub(state, oc)
    [] instruction.op = "Mul"   -> ops_mul(state, oc)
    [] instruction.op = "Div"   -> ops_div(state, oc)
    [] instruction.op = "Mod"   -> ops_mod(state, oc)
    [] instruction.op = "Cmp"   -> ops_cmp(state, oc)
    [] instruction.op = "And"   -> ops_and(state, oc)
    [] instruction.op = "Or"    -> ops_or(state, oc)
    [] instruction.op = "Not"   -> ops_not(state, oc)
    [] instruction.op = "Xor"   -> ops_xor(state, oc)
    [] OTHER                    -> Err("IllegalInstruction")

(***************************************************************************)
(* core/code.rs: the decoder.  Offsets into `data` count from 0 as in the  *)
(* source; the sequences of the model count from 1.                        *)
(***************************************************************************)
\* Ok(VecCode(res))
CodeOk(p) == [tag |-> "Ok", code |-> p]

\* Err(CodeParseError { err, pos })
CodeErr(e, pos) == [tag |-> "Err", err |-> e, pos |-> pos]

\* A slicing that treats a literal like any other opcode, one byte wide: what
\* C12 rules out.
Code_slice_one_byte(data, i) ==
  [panic |-> FALSE, slice |-> SubSeq(data, i + 1, i + 1), next_pos |-> i + 1]

\* `match curr_byte`: the slice handed to Instruction::try_from and the
\* offset of the next opcode.  `&data[i..=(i + word_bytes())]` panics when
\* the slice would end after the end of data.
Code_slice(data, i) ==
  IF data[i + 1] = SET_OPCODE
  THEN IF i + word_bytes >= Len(data)
       THEN [panic |-> TRUE]
       ELSE [panic |-> FALSE,
             slice |-> SubSeq(data, i + 1, i + 1 + word_bytes),
             next_pos |-> i + word_bytes + 1]
  ELSE [panic |-> FALSE, slice |-> SubSeq(data, i + 1, i + 1), next_pos |-> i + 1]

\* The loop of VecCode::try_from, from offset i with res decoded so far.
RECURSIVE Code_loop(_, _, _)
Code_loop(data, i, res) ==
  IF i < Len(data)
  THEN LET c == Code_slice(data, i)
       IN  IF c.panic THEN Panic
           ELSE LET t == Instruction_try_from(c.slice)
                IN  IF t.ok
                    THEN Code_loop(data, c.next_pos, Append(res, t.instr))
                    ELSE CodeErr(t.err, i)
  ELSE CodeOk(res)

\* VecCode::try_from(&[u8])
VecCode_try_from(data) == Code_loop(data, 0, << >>)

(***************************************************************************)
(* The machine and its run loop.                                           *)
(*                                                                         *)
(*   prog, state      the fields of Machine                                *)
(*   curr_pos         the local of run / run_callback                      *)
(*   entry            which entry point the driver called                  *)
(*   result           what the entry point returned: "none" while the loop *)
(*                    runs, Ok(state), Err(e), or Panic                    *)
(*   overflow_checks  whether the build checks integer overflow            *)
(*   observed         the (state, instruction) pairs handed to the         *)
(*                    callback of run_callback, in order                   *)
(*   executed         the instruction indices fetched so far, in order     *)
(*   last             the state and the instruction of the latest call of  *)
(*                    Machine::step                                        *)
(*   data             the bytes the driver read (empty when the program is *)
(*                    given as a Code value)                               *)
(*   decoded          what Code::try_from(data) returned: "none" before    *)
(*                    the call and when no bytes are decoded               *)
(***************************************************************************)
VARIABLES prog, state, curr_pos, entry, result, overflow_checks,
          observed, executed, last, data, decoded

vars == << prog, state, curr_pos, entry, result, overflow_checks,
           observed, executed, last, data, decoded >>

\* Bounds of the model.
MaxProgLen == 2

MaxSteps == 16

\* 2^32 and 2^63 as Words.
P32 == WordBit(32)

P63 == WordBit(63)

\* The Words the programs and start states of the model are built from: small
\* values and the values around the carries and the ends of the u64 range.
SampleWords ==
  { W(0), W(1), W(2), W(7), W(300), SubN(P32, W(1), word_bytes), P32,
    wrapping_add(P32, W(1)), P63, WordMax }

\* The literals of the Set instructions of the enumerated programs.
Lits == { W(0), W(1), WordMax }

BinaryOpcodes == { "Add", "Sub", "Mul", "Div", "Mod", "Cmp", "And", "Or", "Xor" }

Instrs == { I(n) : n \in PlainOpcodes } \cup { ISet(w) : w \in Lits }

\* Every program of at most n instructions over Instrs.
ProgramsUpTo(n) == UNION { [1 .. k -> Instrs] : k \in 0 .. n }

\* Set(x); Push; Set(y); Push; op; Halt: a binary operation on y (top) and x.
BinaryPrograms ==
  { << ISet(x), I("Push"), ISet(y), I("Push"), I(o), I("Halt") >> :
      x \in SampleWords, y \in SampleWords, o \in BinaryOpcodes }

\* Loops, stores and loads, and runs that fail after some successful steps.
OtherPrograms ==
  { << I("Push"), I("Jump") >>,
    << ISet(W(0)), I("Push"), I("Jump") >>,
    << ISet(W(1)), I("Push"), I("Jump"), I("Halt") >>,
    << ISet(WordMax), I("Push"), I("Jump"), I("Nop") >>,
    << ISet(W(7)), I("Push"), ISet(W(2)), I("Push"), I("Store"),
       ISet(W(2)), I("Push"), I("Load") >>,
    << ISet(W(7)), I("Push"), ISet(W(2)), I("Push"), I("Store"),
       ISet(W(1)), I("Push"), I("Load") >>,
    << ISet(W(7)), I("Push"), I("Pop"), I("Pop"), I("Nop") >>,
    << ISet(W(7)), I("Push"), I("Not"), I("Not"), I("Halt"), I("Pop") >>,
    << ISet(W(7)), I("Push"), I("Push"), I("Read"), I("Nop") >>,
    << ISet(W(7)), I("Push"), I("Push"), I("JumpIf"), I("Nop") >>,
    << I("Nop"), I("Push"), I("Nop"), I("Halt"), I("Push") >>,
    << ISet(W(4)), I("Push"), I("Jump"), I("Halt"), I("Pop"), I("Pop") >> }

\* Set(v); Push; Set(a); Push; Store; Set(x); Push; Load: a store of v at a
\* and a load of x; and three stores, two of them at address 1 with another
\* address between them, followed by a load of address 1.
StorePrograms ==
  { << ISet(v), I("Push"), ISet(a), I("Push"), I("Store"),
       ISet(x), I("Push"), I("Load") >> : v \in Lits, a \in Lits, x \in Lits }
  \cup
  { << ISet(W(7)), I("Push"), ISet(W(1)), I("Push"), I("Store"),
       ISet(W(2)), I("Push"), I("Push"), I("Store"),
       ISet(W(1)), I("Push"), I("Push"), I("Store"),
       I("Push"), I("Load") >> }

Programs ==
  ProgramsUpTo(MaxProgLen) \cup BinaryPrograms \cup OtherPrograms \cup StorePrograms

NoResult == [tag |-> "none"]

NoStep == [instr |-> I("none"), pre |-> State_default]

\* Machine::new(prog), and the driver about to call run or run_callback.
Init ==
  /\ prog \in Programs
  /\ state = State_default
  /\ curr_pos = WordZero
  /\ entry \in { "run", "run_callback" }
  /\ result = NoResult
  /\ overflow_checks \in BOOLEAN
  /\ observed = << >>
  /\ executed = << >>
  /\ last = NoStep
  /\ data = << >>
  /\ decoded = NoResult

\* `self.prog.0[curr_pos as usize]`
Fetch(p, pos) == p[WordToNat(pos) + 1]

\* A write of the state that also follows a failed step, with the pc moved
\* past the failing instruction: what C1 rules out.
WriteState_after_error(old, res) ==
  IF res.tag = "Ok" THEN res.state
  ELSE [old EXCEPT !.pc = wrapping_add(old.pc, W(1))]

\* The state of the machine after `Self::step(self.state.clone(), ..)?` and
\* `self.state = new_state`: an error or a panic leaves the loop before the
\* write.
WriteState(old, res) == IF res.tag = "Ok" THEN res.state ELSE old

\* A loop whose observed mode does not return after Halt: what C19 rules out.
LoopPass_observer_hides_halt(callback) ==
  IF WordBelow(curr_pos, Len(prog))
  THEN LET curr_instruction == Fetch(prog, curr_pos)
           res == Machine_step(state, curr_instruction, overflow_checks)
       IN  /\ Len(executed) < MaxSteps
           /\ executed' = Append(executed, WordToNat(curr_pos))
           /\ last' = [instr |-> curr_instruction, pre |-> state]
           /\ state' = WriteState(state, res)
           /\ IF res.tag = "Ok"
              THEN /\ observed' = IF callback
                                  THEN Append(observed,
                                              [state |-> res.state,
                                               instr |-> curr_instruction])
                                  ELSE observed
                   /\ IF curr_instruction = I("Halt") /\ ~callback
                      THEN /\ result' = Ok(res.state)
                           /\ UNCHANGED curr_pos
                      ELSE /\ curr_pos' = res.state.pc
                           /\ UNCHANGED result
              ELSE /\ result' = res
                   /\ UNCHANGED << curr_pos, observed >>
  ELSE /\ result' = Ok(state)
       /\ UNCHANGED << state, curr_pos, observed, executed, last >>

\* A loop whose observer is handed the state the step started from: what C20
\* rules out.
LoopPass_observes_before_step(callback) ==
  IF WordBelow(curr_pos, Len(prog))
  THEN LET curr_instruction == Fetch(prog, curr_pos)
           res == Machine_step(state, curr_instruction, overflow_checks)
       IN  /\ Len(executed) < MaxSteps
           /\ executed' = Append(executed, WordToNat(curr_pos))
           /\ last' = [instr |-> curr_instruction, pre |-> state]
           /\ state' = WriteState(state, res)
           /\ IF res.tag = "Ok"
              THEN /\ observed' = IF callback
                                  THEN Append(observed,
                                              [state |-> state,
                                               instr |-> curr_instruction])
                                  ELSE observed
                   /\ IF curr_instruction = I("Halt")
                      THEN /\ result' = Ok(res.state)
                           /\ UNCHANGED curr_pos
                      ELSE /\ curr_pos' = res.state.pc
                           /\ UNCHANGED result
              ELSE /\ result' = res
                   /\ UNCHANGED << curr_pos, observed >>
  ELSE /\ result' = Ok(state)
       /\ UNCHANGED << state, curr_pos, observed, executed, last >>

\* What one pass of the loop of run (callback = FALSE) or run_callback
\* (callback = TRUE) does to the machine: the loop test, the fetch at
\* curr_pos, the step, `?` on its result, the callback, the write of the
\* state, the return after Halt, and the jump.
LoopPass(callback) ==
  IF WordBelow(curr_pos, Len(prog))
  THEN LET curr_instruction == Fetch(prog, curr_pos)
           res == Machine_step(state, curr_instruction, overflow_checks)
       IN  /\ Len(executed) < MaxSteps
           /\ executed' = Append(executed, WordToNat(curr_pos))
           /\ last' = [instr |-> curr_instruction, pre |-> state]
           /\ state' = WriteState(state, res)
           /\ IF res.tag = "Ok"
              THEN /\ observed' = IF callback
                                  THEN Append(observed,
                                              [state |-> res.state,
                                               instr |-> curr_instruction])
                                  ELSE observed
                   /\ IF curr_instruction = I("Halt")
                      THEN /\ result' = Ok(res.state)
                           /\ UNCHANGED curr_pos
                      ELSE /\ curr_pos' = res.state.pc
                           /\ UNCHANGED result
              ELSE /\ result' = res
                   /\ UNCHANGED << curr_pos, observed >>
  ELSE /\ result' = Ok(state)
       /\ UNCHANGED << state, curr_pos, observed, executed, last >>

\* A run that reports a program counter past the end as an error: what C11
\* rules out.
Machine_run_end_is_error ==
  /\ entry = "run"
  /\ result = NoResult
  /\ IF WordBelow(curr_pos, Len(prog))
     THEN LoopPass(FALSE)
     ELSE /\ result' = Err("IllegalInstruction")
          /\ UNCHANGED << state, curr_pos, observed, executed, last >>
  /\ UNCHANGED << prog, entry, overflow_checks, data, decoded >>

\* Machine::run
Machine_run ==
  /\ entry = "run"
  /\ result = NoResult
  /\ LoopPass(FALSE)
  /\ UNCHANGED << prog, entry, overflow_checks, data, decoded >>

\* Machine::run_callback
Machine_run_callback ==
  /\ entry = "run_callback"
  /\ result = NoResult
  /\ LoopPass(TRUE)
  /\ UNCHANGED << prog, entry, overflow_checks, data, decoded >>

Next == Machine_run \/ Machine_run_callback

Spec == Init /\ [][Next]_vars

(***************************************************************************)
(* The step function on states other than the default one: the driver      *)
(* builds Machine { state, prog } from a state of its own (both fields are *)
(* public) and a short program, and runs it.  The first pass of the loop   *)
(* steps prog[0] on that state.                                            *)
(***************************************************************************)
\* The stacks of the start states: every stack of at most two sample Words,
\* and some of three.
SampleStacks ==
  { Vec_of(s) : s \in UNION { [1 .. k -> SampleWords] : k \in 0 .. 2 } }
  \cup { Vec_of(<< W(300), x, y >>) : x \in Lits, y \in Lits }

\* A memory with two addresses written.
SampleMemory == Memory_write(Memory_write(Memory_new, W(1), W(300)), W(2), W(7))

SmallStates ==
  { [pc |-> WordZero, reg |-> WordZero, stack |-> st, memory |-> Memory_new] :
      st \in SampleStacks }
  \cup
  { [pc |-> W(1), reg |-> W(300), stack |-> st, memory |-> SampleMemory] :
      st \in SampleStacks }

\* The stack of d zeros: what d passes of the loop Push; Jump leave behind.
ZeroStack(d) == [zeros |-> d, rest |-> << >>]

\* States with a full and an almost full stack.
DeepStates ==
  { [pc |-> WordZero, reg |-> r, stack |-> ZeroStack(d), memory |-> Memory_new] :
      r \in { W(0), W(7) }, d \in { MAX_STACK_DEPTH - 1, MAX_STACK_DEPTH } }

\* The programs run on the deep states.
DeepPrograms ==
  { << I(n) >> : n \in { "Nop", "Halt", "Load", "Store", "Push", "Pop", "Add", "Not" } }
  \cup { << ISet(W(1)) >>, << I("Push"), I("Push") >>,
         << I("Pop"), I("Push"), I("Push") >> }

InitStep ==
  /\ \/ /\ state \in SmallStates
        /\ prog \in { << i >> : i \in Instrs }
     \/ /\ state \in DeepStates
        /\ prog \in DeepPrograms
  /\ curr_pos = WordZero
  /\ entry \in { "run", "run_callback" }
  /\ result = NoResult
  /\ overflow_checks \in BOOLEAN
  /\ observed = << >>
  /\ executed = << >>
  /\ last = NoStep
  /\ data = << >>
  /\ decoded = NoResult

SpecStep == InitStep /\ [][Next]_vars

(***************************************************************************)
(* cmd.rs: the driver reads the bytes of a file, decodes them, and runs    *)
(* the machine on the decoded program, observed (trace) or silent.  The    *)
(* files are written from the opcode table of the instruction catalogue.   *)
(***************************************************************************)
\* The catalogue: the instruction at position b + 1 has opcode byte b.
Catalogue ==
  << "Nop", "Halt", "Load", "Store", "Push", "Pop", "Set", "Read", "Write",
     "Jump", "JumpIf", "Add", "Sub", "Mul", "Div", "Mod", "Cmp", "And", "Or",
     "Not", "Xor" >>

\* The eight bytes of a Word, most significant first.
to_be_bytes(w) == [k \in 1 .. word_bytes |-> w[word_bytes + 1 - k]] \o << >>

\* The bytes of one instruction in a file: the opcode byte, and for Set the
\* eight bytes of the literal after it.
Encoding(i) ==
  LET b == (CHOOSE k \in DOMAIN Catalogue : Catalogue[k] = i.op) - 1
  IN  IF i.op = "Set" THEN << b >> \o to_be_bytes(i.arg) ELSE << b >>

\* The bytes of a program: the encodings of its instructions, in order.
RECURSIVE EncodeAll(_)
EncodeAll(p) ==
  IF p = << >> THEN << >> ELSE Encoding(Head(p)) \o EncodeAll(Tail(p))

\* Literals whose bytes are opcode bytes, the Set opcode itself, and bytes
\* that are no opcode.
DecodeWords ==
  { W(5), W(258), WordMax,
    << 6, 6, 6, 6, 6, 6, 6, 6 >>,
    << 8, 7, 6, 5, 4, 3, 2, 1 >>,
    << 255, 21, 0, 6, 1, 9, 200, 6 >> }

DecodeInstrs == { I(n) : n \in PlainOpcodes } \cup { ISet(w) : w \in DecodeWords }

\* The operands of the sums: small values, values whose sum carries into the
\* upper half of the Word, and values whose sum does not fit.
SumWords ==
  { W(0), W(3), W(5), SubN(P32, W(1), word_bytes), P32, P63, WordMax }

\* Set(x); Push; Set(y); Push; Add; Halt
SumProgram(x, y) ==
  << ISet(x), I("Push"), ISet(y), I("Push"), I("Add"), I("Halt") >>

SumPrograms == { SumProgram(x, y) : x \in SumWords, y \in SumWords }

\* The programs the files encode.
DecodePrograms ==
  UNION { [1 .. k -> DecodeInstrs] : k \in 0 .. MaxProgLen }
  \cup OtherPrograms \cup SumPrograms

\* Each of these programs with its bytes.
EncodedPrograms == { << p, EncodeAll(p) >> : p \in DecodePrograms }

\* Bytes that are no opcode.
BadBytes == { 21, 255 }

\* What follows the first bad byte of a damaged file.
Rests ==
  { Encoding(i) : i \in DecodeInstrs } \cup { << >>, << 6, 1 >>, << 255 >>, << 4, 21 >> }

\* The files: the encoded programs, every file cut short at any byte, and
\* files with a byte that is no opcode where an opcode should be.
ByteInputs ==
  UNION { { SubSeq(e[2], 1, k) : k \in 0 .. Len(e[2]) } : e \in EncodedPrograms }
  \cup { e[2] \o << b >> \o r : e \in { x \in EncodedPrograms : Len(x[1]) <= 1 },
                                b \in BadBytes, r \in Rests }
  \cup { e[2] \o << b >> : e \in EncodedPrograms, b \in BadBytes }

\* The driver about to decode the bytes it read.
InitDecode ==
  /\ data \in ByteInputs
  /\ decoded = NoResult
  /\ prog = << >>
  /\ state = State_default
  /\ curr_pos = WordZero
  /\ entry = "decode"
  /\ result = NoResult
  /\ overflow_checks \in BOOLEAN
  /\ observed = << >>
  /\ executed = << >>
  /\ last = NoStep

\* cmd::run up to the call of run or run_callback: Code::try_from on the
\* bytes; an error (or a panic) ends the command, otherwise Machine::new on
\* the code, and `trace` chooses the entry point.
cmd_run ==
  /\ entry = "decode"
  /\ decoded = NoResult
  /\ decoded' = VecCode_try_from(data)
  /\ IF decoded'.tag = "Ok"
     THEN /\ prog' = decoded'.code
          /\ state' = State_default
          /\ entry' \in { "run", "run_callback" }
     ELSE UNCHANGED << prog, state, entry >>
  /\ UNCHANGED << curr_pos, result, overflow_checks, observed, executed, last, data >>

NextDecode == cmd_run \/ Machine_run \/ Machine_run_callback

SpecDecode == InitDecode /\ [][NextDecode]_vars

(***************************************************************************)
(* A second run on the same machine: `run(&mut self)` keeps the state of   *)
(* the machine where the first run left it, and a caller that got Ok or    *)
(* Err back may call run again.                                            *)
(***************************************************************************)
\* The second call of run: `let mut curr_pos: Word = 0;` on the machine as
\* the first run left it.
Machine_run_second_call ==
  /\ entry \in { "run", "run_callback" }
  /\ result.tag \in { "Ok", "Err" }
  /\ entry' = "run_again"
  /\ curr_pos' = WordZero
  /\ result' = NoResult
  /\ observed' = << >>
  /\ executed' = << >>
  /\ last' = NoStep
  /\ UNCHANGED << prog, state, overflow_checks, data, decoded >>

\* Machine::run, called for the second time.
Machine_run_again ==
  /\ entry = "run_again"
  /\ result = NoResult
  /\ LoopPass(FALSE)
  /\ UNCHANGED << prog, entry, overflow_checks, data, decoded >>

NextAgain == Next \/ Machine_run_second_call \/ Machine_run_again

SpecAgain == Init /\ [][NextAgain]_vars

(***************************************************************************)
(* Properties.                                                             *)
(***************************************************************************)
\* The operands of the latest step: the top of the stack it was given (the
\* element popped first), the element beneath it, and the stack under both.
TopOf(st) == Vec_get(st, Vec_len(st))

BeneathOf(st) == Vec_get(st, Vec_len(st) - 1)

\* The stack st without its top n elements, as a sequence.
Under(st, n) == SubSeq(Vec_seq(st), 1, Vec_len(st) - n)

UnderTwo(st) == Under(st, 2)

\* The state after the steps at the indices idxs of p, from s, each step
\* applied to the state the one before it returned.
RECURSIVE Replay(_, _, _, _)
Replay(s, p, idxs, oc) ==
  IF idxs = << >> THEN s
  ELSE Replay(CHOOSE t \in { IF r.tag = "Ok" THEN r.state ELSE s :
                               r \in { Machine_step(s, p[Head(idxs) + 1], oc) } } : TRUE,
              p, Tail(idxs), oc)

\* C1: when a step of a run from the default state fails, the run returns
\* that step's error at once, nothing more can be executed, and the state of
\* the machine is the state the successful steps before it produced (the
\* default state when there is none).
C1_FailedStepStopsRun ==
  result.tag \in { "Err", "Panic" } =>
    LET n == Len(executed)
    IN  /\ n >= 1
        /\ state = Replay(State_default, prog, SubSeq(executed, 1, n - 1),
                          overflow_checks)
        /\ result = Machine_step(state, prog[executed[n] + 1], overflow_checks)
        /\ ~ ENABLED Next

\* C1's case: a run that fails at its fourth step, after three successful
\* steps changed the state, with an instruction left after the failing one.
C1_Witness ==
  /\ result = Err("StackEmpty")
  /\ Len(executed) = 4
  /\ Len(prog) = 5
  /\ state.reg = W(7)
  /\ state.pc = W(3)

\* C2: the stack depth is between 0 and 65535 in every state of the machine,
\* in every state handed to the observer and in every state returned.
C2_StackDepthBounded ==
  /\ Stack_depth(state.stack) >= 0
  /\ Stack_depth(state.stack) <= 65535
  /\ \A k \in DOMAIN observed : Stack_depth(observed[k].state.stack) <= 65535
  /\ result.tag = "Ok" => Stack_depth(result.state.stack) <= 65535

\* C2's case: a Push filled the stack to 65535 elements.
C2_Witness ==
  /\ last.instr = I("Push")
  /\ Stack_depth(last.pre.stack) = 65534
  /\ Stack_depth(state.stack) = 65535

\* The number of stack elements each opcode needs, as C3 lists them.
C3_Arity ==
  [n \in { "Load", "Jump", "Not", "Store", "Add", "Sub", "Mul", "Div", "Mod",
           "Cmp", "And", "Or", "Xor" } |->
     IF n \in { "Load", "Jump", "Not" } THEN 1 ELSE 2]

\* C3: stepping an opcode that needs N stack elements on a stack of fewer
\* than N fails with InsufficientArguments and changes no field of the state.
C3_InsufficientArguments ==
  (/\ last.instr.op \in DOMAIN C3_Arity
   /\ Stack_depth(last.pre.stack) < C3_Arity[last.instr.op])
  => /\ result = Err("InsufficientArguments")
     /\ state = last.pre

\* C3's case: Store stepped on a stack of one element.
C3_Witness ==
  /\ last.instr = I("Store")
  /\ Stack_depth(last.pre.stack) = 1
  /\ result = Err("InsufficientArguments")

\* C4: Push on a stack of exactly 65535 elements fails with StackFull, Pop on
\* the empty stack fails with StackEmpty, and both leave the state unchanged.
C4_StackFullStackEmpty ==
  /\ (last.instr = I("Push") /\ Stack_depth(last.pre.stack) = 65535)
       => (result = Err("StackFull") /\ state = last.pre)
  /\ (last.instr = I("Pop") /\ Stack_depth(last.pre.stack) = 0)
       => (result = Err("StackEmpty") /\ state = last.pre)

\* C4's case: Push stepped on the full stack.
C4_Witness ==
  /\ last.instr = I("Push")
  /\ Stack_depth(last.pre.stack) = 65535
  /\ result = Err("StackFull")

\* A Word below 2^15, whose arithmetic TLC's own integers can follow.
SmallWord(w) == w[2] < 128 /\ \A i \in 3 .. word_bytes : w[i] = 0

\* Whether a op b leaves the u64 range (Add, Mul), is below zero (Sub) or
\* divides by zero (Div), for a the top of the stack and b the one beneath:
\* a + b > MAX iff b > MAX - a; a * b > MAX iff a > 0 and b > MAX / a.
C5_Fails(o, a, b) ==
  CASE o = "Add" -> WordLt(WordNot(a), b)
    [] o = "Sub" -> WordLt(a, b)
    [] o = "Mul" -> a # WordZero /\ WordLt(WordQuot(WordMax, a), b)
    [] o = "Div" -> b = WordZero

\* Whether r is exactly a op b, stated through the inverse operation, and
\* through TLC's integers for small operands.
C5_Exact(o, a, b, r) ==
  CASE o = "Add" ->
         /\ ~ WordLt(r, b) /\ SubN(r, b, word_bytes) = a
         /\ (SmallWord(a) /\ SmallWord(b)) => r = W(WordToNat(a) + WordToNat(b))
    [] o = "Sub" ->
         /\ checked_add(r, b) = Some(a)
         /\ (SmallWord(a) /\ SmallWord(b)) => r = W(WordToNat(a) - WordToNat(b))
    [] o = "Mul" ->
         /\ IF a = WordZero THEN r = WordZero
            ELSE WordRem(r, a) = WordZero /\ WordQuot(r, a) = b
         /\ (SmallWord(a) /\ SmallWord(b)) => r = W(WordToNat(a) * WordToNat(b))
    [] o = "Div" ->
         /\ LET p == checked_mul(r, b)
            IN  /\ p.some
                /\ ~ WordLt(a, p.val)
                /\ WordLt(SubN(a, p.val, word_bytes), b)
         /\ (SmallWord(a) /\ SmallWord(b)) => r = W(WordToNat(a) \div WordToNat(b))

\* C5: Add, Sub, Mul and Div on a stack of at least two elements fail with
\* ArithmeticOverflow exactly when the result leaves the range or the divisor
\* is zero, and then change nothing; otherwise they replace the two operands
\* by the exact result, advance pc by one and leave register, memory and the
\* stack beneath the operands unchanged.
C5_CheckedArithmetic ==
  (/\ last.instr.op \in { "Add", "Sub", "Mul", "Div" }
   /\ Stack_depth(last.pre.stack) >= 2)
  => LET a == TopOf(last.pre.stack)
         b == BeneathOf(last.pre.stack)
     IN  IF C5_Fails(last.instr.op, a, b)
         THEN result = Err("ArithmeticOverflow") /\ state = last.pre
         ELSE /\ result.tag \in { "none", "Ok" }
              /\ Stack_depth(state.stack) = Stack_depth(last.pre.stack) - 1
              /\ C5_Exact(last.instr.op, a, b, TopOf(state.stack))
              /\ Under(state.stack, 1) = UnderTwo(last.pre.stack)
              /\ checked_add(last.pre.pc, W(1)) = Some(state.pc)
              /\ state.reg = last.pre.reg
              /\ state.memory = last.pre.memory

\* C5's case: a multiplication at the edge of the range, (2^32 - 1) * (2^32 + 1)
\* = 2^64 - 1, on a stack with an element beneath the operands.
C5_Witness ==
  /\ last.instr = I("Mul")
  /\ Stack_depth(last.pre.stack) = 2
  /\ TopOf(last.pre.stack) = SubN(P32, W(1), word_bytes)
  /\ BeneathOf(last.pre.stack) = wrapping_add(P32, W(1))
  /\ Vec_seq(state.stack) = << WordMax >>

\* C6: the left operand of a binary opcode is the top of the stack (popped
\* first), the right one the element beneath: Sub pushes top - beneath and
\* fails when top < beneath, Div pushes top / beneath and fails when beneath
\* is zero, Mod pushes top mod beneath.
C6_OperandOrder ==
  (/\ last.instr.op \in { "Sub", "Div", "Mod" }
   /\ Stack_depth(last.pre.stack) >= 2)
  => LET a == TopOf(last.pre.stack)
         b == BeneathOf(last.pre.stack)
         o == last.instr.op
     IN  /\ (o = "Sub" /\ WordLt(a, b)) => result = Err("ArithmeticOverflow")
         /\ (o = "Sub" /\ ~ WordLt(a, b)) =>
              Vec_seq(state.stack) = Append(UnderTwo(last.pre.stack), SubN(a, b, word_bytes))
         /\ (o = "Div" /\ b = WordZero) => result = Err("ArithmeticOverflow")
         /\ (o = "Div" /\ b # WordZero) =>
              Vec_seq(state.stack) = Append(UnderTwo(last.pre.stack), WordQuot(a, b))
         /\ (o = "Mod" /\ b # WordZero) =>
              Vec_seq(state.stack) = Append(UnderTwo(last.pre.stack), WordRem(a, b))

\* C6's case: Sub with 7 on top of 2 pushed 5.
C6_Witness ==
  /\ last.instr = I("Sub")
  /\ Vec_seq(last.pre.stack) = << W(2), W(7) >>
  /\ Vec_seq(state.stack) = << W(5) >>

\* C7: a successful Jump sets pc to the former top of the stack, removes
\* that element from the stack, and leaves register and memory unchanged.
C7_JumpPopsTarget ==
  (/\ last.instr = I("Jump")
   /\ Stack_depth(last.pre.stack) >= 1)
  => /\ state.pc = TopOf(last.pre.stack)
     /\ Vec_seq(state.stack) = Under(last.pre.stack, 1)
     /\ state.reg = last.pre.reg
     /\ state.memory = last.pre.memory

\* C8: the bytes 0x07, 0x08 and 0x0A decode to Read, Write and JumpIf, and
\* stepping any of the three returns the IllegalInstruction error and leaves
\* the state unchanged.
C8_ReservedOpcodesFail ==
  /\ Instruction_try_from(<< 7 >>) = ParseOk(I("Read"))
  /\ Instruction_try_from(<< 8 >>) = ParseOk(I("Write"))
  /\ Instruction_try_from(<< 10 >>) = ParseOk(I("JumpIf"))
  /\ last.instr.op \in { "Read", "Write", "JumpIf" }
       => (result = Err("IllegalInstruction") /\ state = last.pre)

\* C9: Mod on a stack of at least two elements fails with ArithmeticOverflow
\* and changes nothing when the element beneath the top is zero, and
\* otherwise replaces the two operands by top mod beneath.
C9_ModByZeroFails ==
  (/\ last.instr = I("Mod")
   /\ Stack_depth(last.pre.stack) >= 2)
  => LET a == TopOf(last.pre.stack)
         b == BeneathOf(last.pre.stack)
     IN  IF b = WordZero
         THEN result = Err("ArithmeticOverflow") /\ state = last.pre
         ELSE Vec_seq(state.stack) = Append(UnderTwo(last.pre.stack), WordRem(a, b))

\* C10: once the loop has stepped Halt the run has returned Ok with the state
\* Halt was stepped on (pc included), nothing more can be executed, and no
\* instruction was executed after a Halt.
C10_HaltEndsRun ==
  /\ last.instr = I("Halt")
       => /\ state = last.pre
          /\ result = Ok(last.pre)
          /\ ~ ENABLED Next
  /\ \A k \in 1 .. Len(executed) :
       prog[executed[k] + 1] = I("Halt") => k = Len(executed)

\* C10's case: Halt stepped as the fourth instruction of five, with pc at 3.
C10_Witness ==
  /\ last.instr = I("Halt")
  /\ Len(executed) = 4
  /\ Len(prog) = 5
  /\ state.pc = W(3)
  /\ Vec_seq(state.stack) = << WordZero >>
  /\ result = Ok(state)

\* Whether the sequence a starts the sequence b.
IsPrefix(a, b) == Len(a) <= Len(b) /\ SubSeq(b, 1, Len(a)) = a

\* The run is at the loop test with the fetch index at or past the end.
AtEnd ==
  /\ entry \in { "run", "run_callback" }
  /\ result = NoResult
  /\ ~ WordBelow(curr_pos, Len(prog))

\* C11: every index the run fetches at is inside the program; between steps
\* the fetch index is the program counter of the state; when it is at or past
\* the end (by falling off the end or by a Jump) the run can only end, with
\* Ok of the current state and without executing anything; and the empty
\* byte input decodes to the empty program, whose run executes no step and
\* returns the default state.
C11_NoFetchOutsideProgram ==
  /\ \A k \in DOMAIN executed : executed[k] >= 0 /\ executed[k] < Len(prog)
  /\ (result = NoResult /\ executed # << >>) => curr_pos = state.pc
  /\ AtEnd => /\ ENABLED NextDecode
              /\ ~ ENABLED (NextDecode /\ ~ (/\ result' = Ok(state)
                                             /\ state' = state
                                             /\ executed' = executed))
  /\ (result # NoResult /\ ~ WordBelow(curr_pos, Len(prog))) => result = Ok(state)
  /\ (data = << >> /\ decoded # NoResult)
       => /\ decoded = CodeOk(<< >>)
          /\ prog = << >>
          /\ executed = << >>
          /\ state = State_default
          /\ result \in { NoResult, Ok(State_default) }

\* C11's case: the decoded program Set(MAX); Push; Jump; Nop jumped far past
\* its end and the run returned the state after the Jump.
C11_Witness ==
  /\ decoded = CodeOk(<< ISet(WordMax), I("Push"), I("Jump"), I("Nop") >>)
  /\ executed = << 0, 1, 2 >>
  /\ state.pc = WordMax
  /\ result = Ok(state)

\* C12: the bytes of a program (its instructions' encodings, one after the
\* other) decode to exactly that program: a Set takes its opcode byte and the
\* eight bytes after it, whatever their values, every other instruction one
\* byte.
C12_DecodesEncodedPrograms ==
  decoded # NoResult =>
    \A e \in EncodedPrograms :
      e[2] = data => /\ decoded = CodeOk(e[1])
                     /\ prog = e[1]

\* C12's case: a Set whose literal holds the Set opcode and bytes that are no
\* opcode, followed by a Push.
C12_Witness ==
  /\ data = << 6, 6, 200, 9, 1, 6, 0, 21, 255, 4 >>
  /\ decoded = CodeOk(<< ISet(<< 255, 21, 0, 6, 1, 9, 200, 6 >>), I("Push") >>)

\* C13: when the bytes of a program are followed by the Set opcode at offset
\* p and then by fewer than eight bytes, decoding returns the error
\* IncompleteLiteral with position p.
C13_IncompleteLiteral ==
  decoded # NoResult =>
    \A e \in EncodedPrograms :
      (/\ IsPrefix(e[2] \o << SET_OPCODE >>, data)
       /\ Len(data) - Len(e[2]) - 1 < word_bytes)
      => decoded = CodeErr("IncompleteLiteral", Len(e[2]))

\* C14: when the bytes of a program are followed by a byte that is no opcode,
\* decoding returns the error InvalidOpcode with the offset of that byte,
\* whatever follows it; no program is made and nothing is run.
C14_FirstInvalidOpcode ==
  decoded # NoResult =>
    \A e \in EncodedPrograms : \A b \in BadBytes :
      IsPrefix(e[2] \o << b >>, data)
      => /\ decoded = CodeErr("InvalidOpcode", Len(e[2]))
         /\ prog = << >>
         /\ entry = "decode"
         /\ executed = << >>
         /\ result = NoResult

\* C14's case: a Set, then the byte 0x15, then a Halt: the error is at
\* offset 9.
C14_Witness ==
  /\ data = << 6, 0, 0, 0, 0, 0, 0, 0, 5, 21, 1 >>
  /\ decoded = CodeErr("InvalidOpcode", 9)

\* C15: a buffer of one payload-free opcode byte b decodes to the program of
\* the one instruction the catalogue gives for b, whose to_byte is b; and the
\* buffer of the to_byte of a payload-free instruction decodes to that
\* instruction.
C15_OpcodeRoundTrip ==
  decoded # NoResult =>
    /\ (Len(data) = 1 /\ data[1] \in (0 .. 20) \ { 6 })
         => /\ decoded = CodeOk(<< I(Catalogue[data[1] + 1]) >>)
            /\ Instruction_to_byte(decoded.code[1]) = data[1]
    /\ \A n \in PlainOpcodes :
         data = << Instruction_to_byte(I(n)) >> => decoded = CodeOk(<< I(n) >>)

\* C15's case: the buffer [0x12] decoded to Or.
C15_Witness ==
  /\ data = << 18 >>
  /\ decoded = CodeOk(<< I("Or") >>)

\* A buffer of nine bytes that starts with the Set opcode.
IsSetEncoding(d) == Len(d) = 1 + word_bytes /\ d[1] = 6

\* C16 as claimed: the nine bytes decode to Set(w), w the big-endian value of
\* the last eight, and encoding the decoded instruction again gives the nine
\* bytes.
C16_SetRoundTrip ==
  (decoded # NoResult /\ IsSetEncoding(data))
  => /\ decoded.tag = "Ok"
     /\ Len(decoded.code) = 1
     /\ decoded.code[1].op = "Set"
     /\ << Instruction_to_byte(decoded.code[1]) >> = data

\* C16, amended: the nine bytes decode to exactly Set(w), where byte k + 1 of
\* the buffer is the byte of w of weight 256^(8 - k), and to_byte of the
\* decoded instruction is the first of the nine bytes only.
C16_SetDecodes ==
  (decoded # NoResult /\ IsSetEncoding(data))
  => /\ decoded.tag = "Ok"
     /\ Len(decoded.code) = 1
     /\ decoded.code[1].op = "Set"
     /\ \A k \in 1 .. word_bytes : decoded.code[1].arg[word_bytes + 1 - k] = data[k + 1]
     /\ (\A k \in 2 .. 5 : data[k] = 0) /\ data[6] < 128
          => decoded.code[1].arg =
               W(data[6] * (2 ^ 24) + data[7] * (2 ^ 16) + data[8] * (2 ^ 8) + data[9])
     /\ Instruction_to_byte(decoded.code[1]) = data[1]

\* C16's case: the bytes 06 00 00 00 00 00 00 01 02 decoded to Set(258).
C16_Witness ==
  /\ data = << 6, 0, 0, 0, 0, 0, 0, 1, 2 >>
  /\ decoded = CodeOk(<< ISet(W(258)) >>)

\* C17: Load with an address on top of the stack that is not written in the
\* memory succeeds: it replaces the address by zero, advances pc by one, and
\* leaves memory and register unchanged.
C17_LoadUnwritten ==
  (/\ last.instr = I("Load")
   /\ Stack_depth(last.pre.stack) >= 1
   /\ TopOf(last.pre.stack) \notin DOMAIN last.pre.memory)
  => /\ result.tag \in { "none", "Ok" }
     /\ Vec_seq(state.stack) = Append(Under(last.pre.stack, 1), WordZero)
     /\ checked_add(last.pre.pc, W(1)) = Some(state.pc)
     /\ state.memory = last.pre.memory
     /\ state.reg = last.pre.reg

\* C17's case: Load of address 7 in a memory written at 1 and 2 only, with
\* the written address 1 beneath it on the stack.
C17_Witness ==
  /\ last.instr = I("Load")
  /\ last.pre.memory = SampleMemory
  /\ Vec_seq(last.pre.stack) = << W(1), W(7) >>
  /\ Vec_seq(state.stack) = << W(1), WordZero >>

\* The successful Stores among the steps at the indices idxs of p from s, in
\* order: the address on top of the stack each was stepped on and the value
\* beneath it.
RECURSIVE StoreLog(_, _, _, _)
StoreLog(s, p, idxs, oc) ==
  IF idxs = << >> THEN << >>
  ELSE LET i == p[Head(idxs) + 1]
           r == CHOOSE x \in { Machine_step(s, i, oc) } : TRUE
       IN  (IF i = I("Store") /\ r.tag = "Ok"
            THEN << [addr |-> TopOf(s.stack), val |-> BeneathOf(s.stack)] >>
            ELSE << >>)
           \o StoreLog(IF r.tag = "Ok" THEN r.state ELSE s, p, Tail(idxs), oc)

\* The value of the most recent store to x in the log, zero when there is
\* none.
LastStored(log, x) ==
  LET ks == { k \in DOMAIN log : log[k].addr = x }
  IN  IF ks = { } THEN WordZero
      ELSE log[CHOOSE k \in ks : \A j \in ks : j <= k].val

\* C18: a Store on a stack of at least two elements takes the top as address
\* and the element beneath as value, writes the value at the address, changes
\* no other address and removes both elements; and in every state of a run
\* from the default state each address reads as the value of the most recent
\* Store to it (zero when there is none), which is what a Load of it pushes.
C18_StoreThenLoad ==
  LET log == StoreLog(State_default, prog, executed, overflow_checks)
  IN  /\ (last.instr = I("Store") /\ Stack_depth(last.pre.stack) >= 2)
           => LET a == TopOf(last.pre.stack)
                  v == BeneathOf(last.pre.stack)
              IN  /\ result.tag \in { "none", "Ok" }
                  /\ DOMAIN state.memory = DOMAIN last.pre.memory \cup { a }
                  /\ state.memory[a] = v
                  /\ \A x \in DOMAIN last.pre.memory \ { a } :
                       state.memory[x] = last.pre.memory[x]
                  /\ Vec_seq(state.stack) = UnderTwo(last.pre.stack)
                  /\ state.reg = last.pre.reg
      /\ \A x \in SampleWords : Memory_read(state.memory, x) = LastStored(log, x)
      /\ DOMAIN state.memory = { log[k].addr : k \in DOMAIN log }
      /\ (last.instr = I("Load") /\ Stack_depth(last.pre.stack) >= 1)
           => /\ result.tag \in { "none", "Ok" }
              /\ TopOf(state.stack) = LastStored(log, TopOf(last.pre.stack))

\* C18's case: after 7 was stored at address 1, 2 at address 2 and then 1 at
\* address 1, the Load of address 1 pushed 1.
C18_Witness ==
  /\ Len(executed) = 15
  /\ last.instr = I("Load")
  /\ Vec_seq(last.pre.stack) = << W(1) >>
  /\ state.memory = Memory_write(Memory_write(Memory_new, W(1), W(1)), W(2), W(2))
  /\ Vec_seq(state.stack) = << W(1) >>

\* One pass of the loop of the silent run on the configuration c of a
\* machine with program p: nothing once the run has returned; the result
\* Ok(state) when curr_pos is outside the program; otherwise the step of the
\* instruction at curr_pos, whose failure is the result, whose success is
\* the new state, the result after Halt, and the next curr_pos.
SilentPass(c, p, oc) ==
  IF c.result # NoResult THEN c
  ELSE IF ~WordBelow(c.curr_pos, Len(p)) THEN [c EXCEPT !.result = Ok(c.state)]
  ELSE LET i == p[WordToNat(c.curr_pos) + 1]
           r == CHOOSE x \in { Machine_step(c.state, i, oc) } : TRUE
           e == Append(c.executed, WordToNat(c.curr_pos))
       IN  IF r.tag # "Ok" THEN [c EXCEPT !.result = r, !.executed = e]
           ELSE IF i = I("Halt")
           THEN [c EXCEPT !.state = r.state, !.result = Ok(r.state), !.executed = e]
           ELSE [c EXCEPT !.state = r.state, !.curr_pos = r.state.pc, !.executed = e]

\* The configuration of the silent run of p from the default state after k
\* passes of its loop.
RECURSIVE SilentRun(_, _, _)
SilentRun(p, oc, k) ==
  IF k = 0
  THEN [state |-> State_default, curr_pos |-> WordZero, result |-> NoResult,
        executed |-> << >>]
  ELSE SilentPass(SilentRun(p, oc, k - 1), p, oc)

\* C19: at every point of a run of a program, observed or silent, the state
\* of the machine, the position, the indices of the instructions executed and
\* the result (none yet, a final state, or an error with the last good state
\* in the machine) are those of the silent run of that program after as many
\* passes of the loop.
C19_ObserverHasNoInfluence ==
  entry \in { "run", "run_callback" } =>
    [state |-> state, curr_pos |-> curr_pos, result |-> result,
     executed |-> executed]
      = SilentRun(prog, overflow_checks,
                  IF result = NoResult THEN Len(executed) ELSE Len(executed) + 1)

\* C19's case: an observed run that jumped, called its observer and ended in
\* an error.
C19_Witness ==
  /\ entry = "run_callback"
  /\ result.tag = "Err"
  /\ Len(observed) >= 2
  /\ \E k \in 1 .. Len(executed) - 1 : executed[k + 1] # executed[k] + 1

\* C20: a silent run calls no observer; in an observed run the observer has
\* been called once for each instruction that executed (the step that failed,
\* if any, is not one), in execution order, with that instruction and the
\* state its step returned, the Halt step included; the state last observed
\* is the state of the machine, and the state observed before it is the
\* state the last step started from.
C20_ObserverCalls ==
  /\ entry = "run" => observed = << >>
  /\ entry = "run_callback" =>
       LET n == Len(executed)
           m == IF result.tag \in { "Err", "Panic" } THEN n - 1 ELSE n
       IN  /\ Len(observed) = m
           /\ \A k \in 1 .. m :
                /\ observed[k].instr = prog[executed[k] + 1]
                /\ observed[k].state =
                     Replay(State_default, prog, SubSeq(executed, 1, k), overflow_checks)
           /\ m >= 1 => observed[m].state = state
           /\ n >= 2 => observed[n - 1].state = last.pre
           /\ (m = n /\ n >= 1 /\ last.instr = I("Halt")) =>
                /\ observed[n].instr = I("Halt")
                /\ result = Ok(observed[n].state)

\* C20's case: an observed run that returned after Halt, with the observer
\* called for the step before it and for the Halt step.
C20_Witness ==
  /\ entry = "run_callback"
  /\ result.tag = "Ok"
  /\ Len(executed) >= 2
  /\ Len(observed) = Len(executed)
  /\ observed[Len(observed)].instr = I("Halt")
  /\ observed[Len(observed) - 1].state # State_default

\* The sum programs with their operands and their bytes.
EncodedSums ==
  { << x, y, EncodeAll(SumProgram(x, y)) >> : x \in SumWords, y \in SumWords }

\* C21: when the file holds the bytes of Set(x); Push; Set(y); Push; Add;
\* Halt and x + y fits in a Word, the decoder returns these 6 instructions,
\* and the run of them from the default state fails at no step, always has a
\* next pass until it returns, executes each of the 6 once, and returns after
\* Halt with the stack [x + y] and an empty memory.
C21_SumProgram ==
  \A e \in EncodedSums :
    (data = e[3] /\ checked_add(e[1], e[2]).some /\ decoded # NoResult) =>
      /\ decoded = CodeOk(SumProgram(e[1], e[2]))
      /\ Len(decoded.code) = 6
      /\ entry \in { "run", "run_callback" }
      /\ result.tag \in { "none", "Ok" }
      /\ executed = [k \in 1 .. Len(executed) |-> k - 1]
      /\ result = NoResult =>
           /\ Len(executed) < 6
           /\ ENABLED (Machine_run \/ Machine_run_callback)
      /\ result # NoResult =>
           /\ Len(executed) = 6
           /\ last.instr = I("Halt")
           /\ result = Ok(state)
           /\ Vec_seq(state.stack) = << checked_add(e[1], e[2]).val >>
           /\ state.memory = Memory_new

\* C21's case: the file of Set(5); Push; Set(3); Push; Add; Halt was decoded
\* and run, and the run returned with the stack [8].
C21_Witness ==
  /\ data = EncodeAll(SumProgram(W(5), W(3)))
  /\ Len(prog) = 6
  /\ result.tag = "Ok"
  /\ Vec_seq(result.state.stack) = << W(8) >>
  /\ result.state.memory = Memory_new

\* C22: stepping Push on a stack of fewer than 65535 elements, the empty
\* stack included, succeeds: the stack is the one before with the register
\* value on top, pc is one more, register and memory are unchanged; on the
\* default state the stack becomes [0].
C22_PushSucceeds ==
  (last.instr = I("Push") /\ Stack_depth(last.pre.stack) < 65535) =>
    /\ result.tag \in { "none", "Ok" }
    /\ Stack_depth(state.stack) = Stack_depth(last.pre.stack) + 1
    /\ TopOf(state.stack) = last.pre.reg
    /\ Under(state.stack, 1) = Vec_seq(last.pre.stack)
    /\ checked_add(last.pre.pc, W(1)) = Some(state.pc)
    /\ state.reg = last.pre.reg
    /\ state.memory = last.pre.memory
    /\ last.pre = State_default => Vec_seq(state.stack) = << WordZero >>

\* C22's case: Push stepped on the default state, whose stack is empty.
C22_Witness ==
  /\ last.instr = I("Push")
  /\ last.pre = State_default
  /\ Vec_seq(state.stack) = << WordZero >>
  /\ state.pc = W(1)

\* C23: the instruction of every step, the first of a run included, is the
\* one of the program at the index that is the pc of the state the step
\* started from.
C23_FetchAtProgramCounter ==
  last.instr # I("none") =>
    /\ WordBelow(last.pre.pc, Len(prog))
    /\ last.instr = Fetch(prog, last.pre.pc)

\* The opcodes C24 lists.
C24_Opcodes ==
  { "Nop", "Load", "Store", "Push", "Pop", "Set", "Add", "Sub", "Mul", "Div",
    "Mod", "Cmp", "And", "Or", "Not", "Xor" }

\* C24: after a successful step of one of these opcodes the pc of the state
\* is the pc of the state before plus one; and while a run that has executed
\* a step has not returned, the index of its next fetch is the pc of the
\* state, whatever the step was.
C24_PcAdvancesByOne ==
  /\ (last.instr.op \in C24_Opcodes /\ result.tag \in { "none", "Ok" }) =>
       checked_add(last.pre.pc, W(1)) = Some(state.pc)
  /\ (executed # << >> /\ result = NoResult) => curr_pos = state.pc

\* C24's case: a successful step of Not at index 2, after which the run goes
\* on and its next fetch is at index 3.
C24_Witness ==
  /\ last.instr = I("Not")
  /\ last.pre.pc = W(2)
  /\ state.pc = W(3)
  /\ curr_pos = W(3)
  /\ result = NoResult

\* The addresses at which the memory of the state differs from the memory the
\* latest step started from.
C25_Changed ==
  { x \in DOMAIN state.memory :
      x \notin DOMAIN last.pre.memory \/ state.memory[x] # last.pre.memory[x] }

\* C25: every address written before a step is written after it; a step of
\* an opcode other than Store leaves the memory as it was; a Store changes
\* no address but the one on top of the stack it was stepped on.
C25_MemoryOnlyGrows ==
  last.instr # I("none") =>
    /\ DOMAIN last.pre.memory \subseteq DOMAIN state.memory
    /\ last.instr # I("Store") => state.memory = last.pre.memory
    /\ last.instr = I("Store") =>
         /\ Cardinality(C25_Changed) <= 1
         /\ C25_Changed # { } =>
              /\ Stack_depth(last.pre.stack) >= 2
              /\ C25_Changed = { TopOf(last.pre.stack) }

\* C25's case: a Store at address 7 stepped on a memory written at 1 and 2.
C25_Witness ==
  /\ last.instr = I("Store")
  /\ last.pre.memory = SampleMemory
  /\ TopOf(last.pre.stack) = W(7)
  /\ DOMAIN state.memory = { W(1), W(2), W(7) }
  /\ state.memory[W(1)] = W(300)
  /\ state.memory[W(2)] = W(7)

\* C26: a Pop stepped on a non-empty stack succeeds, removes the top element
\* and puts it in the register, and keeps the memory and the elements beneath
\* the top; a Push stepped on the state it returns succeeds and gives back
\* the stack the Pop was stepped on.  A Pop stepped on the state a successful
\* Push returned succeeds and gives back the stack, the register and the
\* memory the Push was stepped on, with the pc two further.
C26_PopAndPush ==
  /\ (last.instr = I("Pop") /\ Stack_depth(last.pre.stack) >= 1) =>
       /\ result.tag \in { "none", "Ok" }
       /\ state.reg = TopOf(last.pre.stack)
       /\ Vec_seq(state.stack) = Under(last.pre.stack, 1)
       /\ state.memory = last.pre.memory
       /\ LET r == Machine_step(state, I("Push"), overflow_checks)
          IN  /\ r.tag = "Ok"
              /\ r.state.stack = last.pre.stack
              /\ r.state.reg = TopOf(last.pre.stack)
              /\ r.state.memory = last.pre.memory
  /\ (last.instr = I("Push") /\ result.tag \in { "none", "Ok" }) =>
       LET r == Machine_step(state, I("Pop"), overflow_checks)
       IN  /\ r.tag = "Ok"
           /\ r.state.stack = last.pre.stack
           /\ r.state.reg = last.pre.reg
           /\ r.state.memory = last.pre.memory
           /\ checked_add(last.pre.pc, W(2)) = Some(r.state.pc)

\* C26's case: a Pop stepped on the stack [1, 7] with 300 in the register
\* left the stack [1] and 7 in the register.
C26_Witness ==
  /\ last.instr = I("Pop")
  /\ last.pre.reg = W(300)
  /\ Vec_seq(last.pre.stack) = << W(1), W(7) >>
  /\ state.reg = W(7)
  /\ Vec_seq(state.stack) = << W(1) >>
  /\ state.memory = SampleMemory

\* C27: the run of Set(0); Push; Jump from the default state has not
\* returned and has not failed, and whenever its next fetch is at index 0
\* the stack is empty.
C27_LoopKeepsStackEmpty ==
  prog = << ISet(W(0)), I("Push"), I("Jump") >> =>
    /\ result = NoResult
    /\ curr_pos = WordZero => Stack_depth(state.stack) = 0

\* Bit i (0 the least significant) of the Word w.
C28_Bit(w, i) == (w[(i \div 8) + 1] \div (2 ^ (i % 8))) % 2

\* C28: Cmp, And, Or and Xor stepped on a stack of at least two elements,
\* and Not stepped on a stack of at least one, succeed, keep register, memory
\* and the elements beneath the operands, and put in place of the operands:
\* Cmp 1 when they are equal and 0 when they are not; And, Or and Xor the Word
\* whose every bit is the and, the or, the exclusive or of the operands' bits;
\* Not the Word whose every bit is the opposite of the operand's, so that a
\* second Not gives back the stack of the first.
C28_CmpAndBitwise ==
  /\ (/\ last.instr.op \in { "Cmp", "And", "Or", "Xor" }
      /\ Stack_depth(last.pre.stack) >= 2) =>
       LET a == TopOf(last.pre.stack)
           b == BeneathOf(last.pre.stack)
           c == TopOf(state.stack)
           o == last.instr.op
       IN  /\ result.tag \in { "none", "Ok" }
           /\ Stack_depth(state.stack) = Stack_depth(last.pre.stack) - 1
           /\ Under(state.stack, 1) = UnderTwo(last.pre.stack)
           /\ state.reg = last.pre.reg
           /\ state.memory = last.pre.memory
           /\ c \in [1 .. 8 -> 0 .. 255]
           /\ o = "Cmp" => /\ c \in { W(0), W(1) }
                           /\ (c = W(1)) <=> (a = b)
           /\ o = "And" => \A i \in 0 .. 63 :
                (C28_Bit(c, i) = 1) <=> (C28_Bit(a, i) = 1 /\ C28_Bit(b, i) = 1)
           /\ o = "Or" => \A i \in 0 .. 63 :
                (C28_Bit(c, i) = 1) <=> (C28_Bit(a, i) = 1 \/ C28_Bit(b, i) = 1)
           /\ o = "Xor" => \A i \in 0 .. 63 :
                (C28_Bit(c, i) = 1) <=> (C28_Bit(a, i) # C28_Bit(b, i))
  /\ (last.instr = I("Not") /\ Stack_depth(last.pre.stack) >= 1) =>
       LET a == TopOf(last.pre.stack)
           c == TopOf(state.stack)
           r == Machine_step(state, I("Not"), overflow_checks)
       IN  /\ result.tag \in { "none", "Ok" }
           /\ Stack_depth(state.stack) = Stack_depth(last.pre.stack)
           /\ Under(state.stack, 1) = Under(last.pre.stack, 1)
           /\ state.reg = last.pre.reg
           /\ state.memory = last.pre.memory
           /\ c \in [1 .. 8 -> 0 .. 255]
           /\ \A i \in 0 .. 63 : C28_Bit(c, i) = 1 - C28_Bit(a, i)
           /\ r.tag = "Ok"
           /\ r.state.stack = last.pre.stack

\* C28's case: Cmp stepped on two equal operands, 2^64-1 on top of 2^64-1,
\* over an element that stays.
C28_Witness ==
  /\ last.instr = I("Cmp")
  /\ Vec_seq(last.pre.stack) = << W(300), WordMax, WordMax >>
  /\ Vec_seq(state.stack) = << W(300), W(1) >>

\* The program p has no Jump instruction.
C29_NoJump(p) == \A k \in DOMAIN p : p[k] # I("Jump")

\* C29: in a run of a program without Jump from the default state, the
\* indices of the instructions executed are strictly increasing indices of
\* the program, so that no instruction is executed twice and the steps are
\* at most as many as the instructions; and as long as the run has not
\* returned a result or an error its next pass is either a step that is
\* within that number (and within the step bound of the model) or, once
\* every instruction has been executed, the pass that leaves the loop: the
\* run returns after at most that many steps.
C29_NoJumpTerminates ==
  C29_NoJump(prog) =>
    /\ Len(executed) <= Len(prog)
    /\ \A k \in DOMAIN executed : executed[k] < Len(prog)
    /\ \A j, k \in DOMAIN executed : j < k => executed[j] < executed[k]
    /\ (result = NoResult /\ WordBelow(curr_pos, Len(prog))) =>
         /\ Len(executed) < Len(prog)
         /\ Len(executed) < MaxSteps
         /\ \A k \in DOMAIN executed : executed[k] < WordToNat(curr_pos)

\* C29's case: the run of a program of 15 instructions without Jump that
\* executed each of them once, in order, and returned.
C29_Witness ==
  /\ C29_NoJump(prog)
  /\ Len(prog) = 15
  /\ executed = [k \in 1 .. 15 |-> k - 1]
  /\ result.tag = "Ok"

=============================================================================
